---------------------------- MODULE Spec2Model ----------------------------
(* A model of the rust-service crate: the run loop of lib.rs, the signal   *)
(* context of application.rs and the logger sink of logging.rs.            *)
EXTENDS Naturals, Sequences, FiniteSets

(***************************************************************************)
(* Bounds of the model.                                                    *)
(***************************************************************************)
\* signals the operating system delivers during one run
MaxSignals == 3
\* invocations of run_once the application is followed through
MaxIter == 4
\* calls of poll_signals the application makes during one run
MaxPolls == 2

(***************************************************************************)
(* Values.                                                                 *)
(***************************************************************************)
\* chan_signal::Signal values the model uses
Signal == {"INT", "TERM", "HUP"}

\* Application::Err values
Errs == {"e1", "e2"}

\* Result<Stopping, Err> of run_once
Stopping == {"Yes", "No"}

VARIABLES
    \* ---- run() of lib.rs and the signal context of application.rs
    pc,          \* the position of run()
    appSignals,  \* T::signals(): the set the application declares
    overridden,  \* whether T overrides received_signal
    registered,  \* whether chan_signal::notify has been called
    queue,       \* the buffer of the Receiver<Signal> held by Context
    delivered,   \* every signal the operating system delivered so far
    deliveredAt, \* for each of them, the stage of run() it arrived in
    handled,     \* the arguments of every received_signal call so far
    calls,       \* the calls run() made on the application, in order
    result,      \* what run() returned
    polls,       \* the number of poll_signals calls so far
    pollEntry,   \* the queue when the current or last poll_signals began
    pollHandled, \* the received_signal calls of the current or last poll
    pollArrived, \* deliveries while the current or last poll was running
    pollLeft,    \* the queue when the last poll_signals returned
    exitStatus,  \* the status the process exited with, or 0
    \* ---- the logging state of the process (the log crate's globals)
    rustLog,     \* the environment variable RUST_LOG: "unset", or the level
                 \* its value names
    installed,   \* the logger installed in the log crate, and by which call
    maxLevel,    \* log::max_level()
    inits,       \* the calls of logging::init so far, in order
    \* ---- Logger<T> of logging.rs and the threads that call it
    level,                 \* Logger.level
    target_filter,         \* Logger.target_filter
    include_systemd_level, \* Logger.include_systemd_level
    holder,      \* the thread that holds Logger.output's mutex, or 0
    poisoned,    \* whether a thread panicked while it held the mutex
    buffer,      \* what the LineWriter holds back until a newline
    out,         \* what the LineWriter has passed on to the output T
    tpc,         \* for each thread, its position in log or flush
    rec,         \* for each thread inside log, the record it was given
    piece,       \* for each thread in writeln!, the next piece to write
    ncalls,      \* the number of log calls so far
    last         \* the call of the sink that returned last, and how

app == <<appSignals, overridden>>
sigs == <<registered, queue, delivered, deliveredAt>>
pollLog == <<polls, pollEntry, pollHandled, pollArrived, pollLeft>>
runVars == <<pc, app, sigs, handled, calls, result, pollLog, exitStatus>>

install == <<rustLog, installed, maxLevel, inits>>

logger == <<level, target_filter, include_systemd_level>>
output == <<holder, poisoned, buffer, out>>
logVars == <<logger, output, tpc, rec, piece, ncalls, last>>

vars == <<runVars, logVars, install>>

(***************************************************************************)
(* Helpers.                                                                *)
(***************************************************************************)
\* the events of a trace that call operation op
Count(tr, op) == Cardinality({i \in 1..Len(tr) : tr[i].op = op})

Event(op, val) == [op |-> op, val |-> val]

(***************************************************************************)
(* logging.rs: the Logger sink.                                            *)
(***************************************************************************)
\* threads of the application that log
NumThreads == 2
\* calls of Logger::log followed during one run
MaxLogCalls == 2

Threads == 1..NumThreads

\* log::LevelFilter and log::Level in the order of their discriminants:
\* the order  metadata.level() <= self.level  compares by
LevelOrd == <<"Off", "Error", "Warn", "Info", "Debug", "Trace">>

LevelFilter == {LevelOrd[i] : i \in 1..Len(LevelOrd)}

Level == LevelFilter \ {"Off"}

Ord(l) == CHOOSE i \in 1..Len(LevelOrd) : LevelOrd[i] = l

\* the strings the model draws target filters and record targets from
Str_svc == <<"s", "v", "c">>
Str_svc_net == <<"s", "v", "c", ".", "n", "e", "t">>
Str_sv == <<"s", "v">>
Str_app == <<"a", "p", "p">>

Filters == {<<>>, Str_svc}

Targets == {Str_svc_net, Str_sv, Str_app}

\* the records a single caller is followed through
Records == [level : Level, target : Targets, msg : {"up"}]

\* the records concurrent callers are followed through
FewRecords == [level : {"Error", "Debug"}, target : {Str_svc_net},
               msg : {"up"}]

NoRecord == [id |-> 0, level |-> "Off", target |-> <<>>, msg |-> ""]

\* (mutant) the comparison is strict
EnabledStrict(l, filter) == Ord(l) < Ord(filter)

\* (mutant) the comparison is the other way round
EnabledReversed(l, filter) == Ord(l) >= Ord(filter)

\* fn enabled(&self, metadata) -> bool { metadata.level() <= self.level }
Enabled(l, filter) == Ord(l) <= Ord(filter)

\* str::starts_with
StartsWith(t, f) == Len(f) <= Len(t) /\ SubSeq(t, 1, Len(f)) = f

\* (mutant) Info is given the syslog priority of informational messages
systemd_levelSyslog(include, l) ==
    IF include
    THEN CASE l = "Error" -> "<3> "
           [] l = "Warn"  -> "<4> "
           [] l = "Info"  -> "<6> "
           [] l = "Debug" -> "<7> "
           [] l = "Trace" -> "<7> "
    ELSE ""

\* fn systemd_level(&self, record) -> &'static str
systemd_level(include, l) ==
    IF include
    THEN CASE l = "Error" -> "<3> "
           [] l = "Warn"  -> "<4> "
           [] l = "Info"  -> "<5> "
           [] l = "Debug" -> "<7> "
           [] l = "Trace" -> "<7> "
    ELSE ""

\* (mutant) the two filters are joined by || instead of &&
PassesEither(r) ==
    \/ Enabled(r.level, level)
    \/ StartsWith(r.target, target_filter)

\* the condition of log():
\*   self.enabled(record.metadata())
\*     && record.target().starts_with(&self.target_filter)
Passes(r) ==
    /\ Enabled(r.level, level)
    /\ StartsWith(r.target, target_filter)

\* writeln!(writer, "{}{}", prefix, record.args()): the pieces write_fmt
\* hands to the writer one after the other (an empty piece writes nothing)
Pieces(prefix, msg) ==
    (IF prefix = "" THEN <<>> ELSE <<prefix>>) \o <<msg, "\n">>

PiecesOf(r) == Pieces(systemd_level(include_systemd_level, r.level), r.msg)

\* a piece in the output, with the call of log that wrote it
Chunk(r, text) == [call |-> r.id, text |-> text]

\* what a returned call leaves in last
NoCall == [op |-> "none"]

Returned(op, r, how) ==
    [op |-> op, id |-> r.id, level |-> r.level, target |-> r.target,
     how |-> how]

\* Logger::new(output, options): the sink over a fresh LineWriter
LoggerNew ==
    /\ level \in LevelFilter
    /\ target_filter \in Filters
    /\ include_systemd_level \in BOOLEAN
    /\ holder = 0
    /\ poisoned = FALSE
    /\ buffer = <<>>
    /\ out = <<>>
    /\ tpc = [t \in Threads |-> "idle"]
    /\ rec = [t \in Threads |-> NoRecord]
    /\ piece = [t \in Threads |-> 0]
    /\ ncalls = 0
    /\ last = NoCall

\* a thread calls Logger::enabled with a level
EnabledCall(t, l) ==
    /\ tpc[t] = "idle"
    /\ last' = [op |-> "enabled", level |-> l, how |-> Enabled(l, level)]
    /\ UNCHANGED <<runVars, install, logger, output, tpc, rec, piece, ncalls>>

\* a thread calls Logger::log with record r: the filter of log()
LogCall(t, r) ==
    /\ tpc[t] = "idle"
    /\ ncalls < MaxLogCalls
    /\ ncalls' = ncalls + 1
    /\ LET given == [id |-> ncalls + 1, level |-> r.level,
                     target |-> r.target, msg |-> r.msg]
       IN  IF Passes(r)
           THEN /\ tpc' = [tpc EXCEPT ![t] = "log_lock"]
                /\ rec' = [rec EXCEPT ![t] = given]
                /\ last' = last
           ELSE /\ last' = Returned("log", given, "filtered")
                /\ UNCHANGED <<tpc, rec>>
    /\ UNCHANGED <<runVars, install, logger, output, piece>>

\* (mutant) the results are unwrapped: an Err panics in the caller's thread
Unwrapped == "panicked"

\* where a caller is after  if let Ok(..) = self.output.lock()  has met an
\* Err, or  let _ =  has dropped the Err of the writer: the call has
\* returned to it
Swallowed == "idle"

\* (mutant) the output is written without waiting for the mutex
LockIgnored == TRUE

\* the mutex can be taken by a thread that asks for it
LockFree == holder = 0

\* if let Ok(ref mut writer) = self.output.lock(): the thread waits for the
\* mutex; a poisoned mutex answers Err and the body is skipped
LogLock(t) ==
    /\ tpc[t] = "log_lock"
    /\ LockFree
    /\ IF poisoned
       THEN /\ tpc' = [tpc EXCEPT ![t] = Swallowed]
            /\ rec' = [rec EXCEPT ![t] = NoRecord]
            /\ last' = Returned("log", rec[t], "lock_failed")
            /\ UNCHANGED <<holder, piece>>
       ELSE /\ holder' = t
            /\ tpc' = [tpc EXCEPT ![t] = "log_write"]
            /\ piece' = [piece EXCEPT ![t] = 1]
            /\ UNCHANGED <<rec, last>>
    /\ UNCHANGED <<runVars, install, logger, poisoned, buffer, out, ncalls>>

\* io::LineWriter::write: what is written is held back until a newline
\* comes, and then passed on together with it
LineWriterOut(c) == IF c.text = "\n" THEN out \o buffer \o <<c>> ELSE out

LineWriterBuffer(c) == IF c.text = "\n" THEN <<>> ELSE Append(buffer, c)

\* the holder of the mutex after thread t has dropped its guard
Unlocked(t) == IF holder = t THEN 0 ELSE holder

\* let _ = writeln!(writer, "{}{}", prefix, record.args()): the next piece
\* is written; after the last one the guard is dropped and log returns
LogWrite(t) ==
    /\ tpc[t] = "log_write"
    /\ LET ps == PiecesOf(rec[t])
           c  == Chunk(rec[t], ps[piece[t]])
       IN  /\ out' = LineWriterOut(c)
           /\ buffer' = LineWriterBuffer(c)
           /\ IF piece[t] = Len(ps)
              THEN /\ holder' = Unlocked(t)
                   /\ tpc' = [tpc EXCEPT ![t] = "idle"]
                   /\ rec' = [rec EXCEPT ![t] = NoRecord]
                   /\ piece' = [piece EXCEPT ![t] = 0]
                   /\ last' = Returned("log", rec[t], "written")
              ELSE /\ piece' = [piece EXCEPT ![t] = piece[t] + 1]
                   /\ UNCHANGED <<holder, tpc, rec, last>>
    /\ UNCHANGED <<runVars, install, logger, poisoned, ncalls>>

\* the writer answers a piece with an error: write_fmt stops, the result is
\* dropped (let _ =), the guard is dropped and log returns
LogWriteFail(t) ==
    /\ tpc[t] = "log_write"
    /\ holder' = Unlocked(t)
    /\ tpc' = [tpc EXCEPT ![t] = Swallowed]
    /\ rec' = [rec EXCEPT ![t] = NoRecord]
    /\ piece' = [piece EXCEPT ![t] = 0]
    /\ last' = Returned("log", rec[t], "write_failed")
    /\ UNCHANGED <<runVars, install, logger, poisoned, buffer, out, ncalls>>

\* formatting record.args() panics while the guard is held: the unwinding
\* drops the guard, which poisons the mutex; the caller catches the panic
\* and goes on, or its thread ends
LogPanic(t, caught) ==
    /\ tpc[t] = "log_write"
    /\ PiecesOf(rec[t])[piece[t]] = rec[t].msg
    /\ holder' = Unlocked(t)
    /\ poisoned' = TRUE
    /\ tpc' = [tpc EXCEPT ![t] = IF caught THEN "idle" ELSE "panicked"]
    /\ rec' = [rec EXCEPT ![t] = NoRecord]
    /\ piece' = [piece EXCEPT ![t] = 0]
    /\ UNCHANGED <<runVars, install, logger, buffer, out, ncalls, last>>

\* formatting record.args() logs a record itself (a Display implementation
\* that uses the log macros), on the thread that holds the guard: the inner
\* call of log passes the filters and asks for the mutex.  A
\* std::sync::Mutex is not re-entrant: the thread waits for the mutex it
\* holds itself (where lock() panics instead, the step is LogPanic).  An
\* inner record the filters reject changes nothing.
LogNested(t, r) ==
    /\ tpc[t] = "log_write"
    /\ PiecesOf(rec[t])[piece[t]] = rec[t].msg
    /\ Passes(r)
    /\ tpc' = [tpc EXCEPT ![t] = "nested_lock"]
    /\ UNCHANGED <<runVars, install, logger, output, rec, piece, ncalls,
                   last>>

\* a thread calls Logger::flush
FlushCall(t) ==
    /\ tpc[t] = "idle"
    /\ tpc' = [tpc EXCEPT ![t] = "flush_lock"]
    /\ UNCHANGED <<runVars, install, logger, output, rec, piece, ncalls, last>>

\* if let Ok(ref mut output) = self.output.lock()
FlushLock(t) ==
    /\ tpc[t] = "flush_lock"
    /\ LockFree
    /\ IF poisoned
       THEN /\ tpc' = [tpc EXCEPT ![t] = Swallowed]
            /\ last' = [op |-> "flush", how |-> "lock_failed"]
            /\ holder' = holder
       ELSE /\ holder' = t
            /\ tpc' = [tpc EXCEPT ![t] = "flush_write"]
            /\ last' = last
    /\ UNCHANGED <<runVars, install, logger, poisoned, buffer, out, rec,
                   piece, ncalls>>

\* let _ = output.flush(): what is held back is passed on, or the writer
\* answers with an error; the guard is dropped and flush returns
FlushWrite(t, ok) ==
    /\ tpc[t] = "flush_write"
    /\ IF ok
       THEN out' = out \o buffer /\ buffer' = <<>>
       ELSE UNCHANGED <<out, buffer>>
    /\ holder' = Unlocked(t)
    /\ tpc' = [tpc EXCEPT ![t] = IF ok THEN "idle" ELSE Swallowed]
    /\ last' = [op |-> "flush", how |-> IF ok THEN "flushed" ELSE "failed"]
    /\ UNCHANGED <<runVars, install, logger, poisoned, rec, piece, ncalls>>

(***************************************************************************)
(* logging.rs: init, and the globals of the log crate it works on.         *)
(***************************************************************************)
\* calls of logging::init one process is followed through
MaxInits == 2

\* std::env::var("RUST_LOG"): the variable is not set, or its value names a
\* level
Environment == {"unset", "Debug"}

\* the LogOptions init is given
InitOptions ==
    [level : LevelFilter, filter : Filters, systemd : BOOLEAN]

\* the LogOptions of the application run() is followed with
RunOptions ==
    [level : {"Debug"}, filter : {<<>>}, systemd : {TRUE}]

\* no logger is installed, or one the embedding program installed itself
NoInstall == [kind |-> "none", by |-> 0]

Foreign == [kind |-> "other", by |-> 0]

\* the logging state of a process before init is called: the log crate
\* starts with the maximum level Off, a program that installed its own
\* logger has set a level
ProcessStart ==
    /\ rustLog \in Environment
    /\ installed \in {NoInstall, Foreign}
    /\ maxLevel = IF installed = NoInstall THEN "Off" ELSE "Warn"
    /\ inits = <<>>

\* (mutant) the built-in sink is used whatever the environment says
BackendBuiltIn(e) == "sink"

\* if ::std::env::var("RUST_LOG").is_ok() { env_logger } else { Logger }
Backend(e) == IF e = "unset" THEN "sink" ELSE "env_logger"

\* (mutant) a later logger replaces the installed one
SetLoggerReplace(kind, n) == [kind |-> kind, by |-> n]

\* log::set_boxed_logger: the logger is installed unless one is installed
SetLogger(kind, n) ==
    IF installed = NoInstall THEN [kind |-> kind, by |-> n] ELSE installed

\* the Result of log::set_boxed_logger and of env_logger::try_init
SetLoggerResult == IF installed = NoInstall THEN "Ok" ELSE "Err"

\* Logger::new: log::set_max_level(level), before the Logger is built and
\* before init hands it to set_boxed_logger
MaxLevelOfNew(o) == o.level

\* One call of logging::init with the environment e and the options o.
\* env_logger::try_init sets the maximum level to what RUST_LOG names;
\* whether it does so when the installation fails depends on its version
\* (early).  A Logger that is not installed is dropped.
init(e, o, early) ==
    LET n == Len(inits) + 1
        b == Backend(e)
    IN  /\ installed' = SetLogger(b, n)
        /\ maxLevel' =
              IF b = "sink" THEN MaxLevelOfNew(o)
              ELSE IF SetLoggerResult = "Ok" \/ early THEN e ELSE maxLevel
        /\ IF installed' = [kind |-> "sink", by |-> n]
           THEN /\ level' = o.level
                /\ target_filter' = o.filter
                /\ include_systemd_level' = o.systemd
           ELSE UNCHANGED logger
        /\ inits' = Append(inits, [env |-> e, level |-> o.level,
                                   backend |-> b, ret |-> SetLoggerResult])

\* logging::init is called once more in the same process
InitCall(e, o, early) ==
    /\ Len(inits) < MaxInits
    /\ rustLog' = e
    /\ init(e, o, early)
    /\ UNCHANGED <<runVars, output, tpc, rec, piece, ncalls, last>>

\* the crate's name, the first segment of the target of its own records
Str_service == <<"s", "e", "r", "v", "i", "c", "e">>

\* debug!("Received signal: {:?}", sig) in poll_signals: the record goes to
\* the installed logger if the maximum level lets Debug through; the sink
\* writes its line if the record passes its filters
DebugRecord(s) ==
    [id |-> 0, level |-> "Debug", target |-> Str_service, msg |-> s]

DebugLine(s) ==
    LET r  == DebugRecord(s)
        ps == PiecesOf(r)
    IN  IF /\ installed.kind = "sink"
           /\ Enabled("Debug", maxLevel)
           /\ Passes(r)
           /\ ~poisoned
        THEN [i \in 1..Len(ps) |-> Chunk(r, ps[i])]
        ELSE <<>>

(***************************************************************************)
(* lib.rs: run().  The statements before the loop, in program order.       *)
(***************************************************************************)
\* (mutant) the signals are registered after the options are loaded
StartupOrderLate ==
    <<"load_opts", "notify", "log_init", "load_config", "new">>

StartupOrder == <<"notify", "load_opts", "log_init", "load_config", "new">>

\* the position after startup statement p
AfterStartup(p) ==
    LET i == CHOOSE k \in 1..Len(StartupOrder) : StartupOrder[k] = p
    IN  IF i < Len(StartupOrder) THEN StartupOrder[i + 1] ELSE "loop"

\* the statements of the startup other than the registration of the signals
Initialization == {"load_opts", "log_init", "load_config", "new"}

\* the stage of run() a position belongs to
Stage(p) ==
    CASE p = "notify" -> "registration"
      [] p \in Initialization -> "startup"
      [] OTHER -> "run"

\* die!: ::std::process::exit(1)
DieStatus == 1

\* the process is running run()
Alive == pc \notin {"returned", "exited", "killed"}

\* Application::signals(): the default, or an override
DefaultSignals == {"INT", "TERM"}

RunInit ==
    /\ pc = StartupOrder[1]
    /\ appSignals \in {DefaultSignals, Signal \ DefaultSignals}
    /\ overridden \in BOOLEAN
    /\ registered = FALSE
    /\ queue = <<>>
    /\ delivered = <<>>
    /\ deliveredAt = <<>>
    /\ handled = <<>>
    /\ calls = <<>>
    /\ result = "none"
    /\ polls = 0
    /\ pollEntry = <<>>
    /\ pollHandled = <<>>
    /\ pollArrived = 0
    /\ pollLeft = <<>>
    /\ exitStatus = 0

\* The operating system delivers one signal of the application's set.  Once
\* notify has registered the set the signal bridge queues it; before that
\* the default disposition of the signal ends the process.
Deliver(s) ==
    /\ Alive
    /\ Len(delivered) < MaxSignals
    /\ delivered' = Append(delivered, s)
    /\ deliveredAt' = Append(deliveredAt, Stage(pc))
    /\ IF registered
       THEN /\ queue' = Append(queue, s)
            /\ pollArrived' = IF pc = "poll" THEN pollArrived + 1
                                              ELSE pollArrived
            /\ pc' = pc
       ELSE /\ pc' = "killed"
            /\ UNCHANGED <<queue, pollArrived>>
    /\ UNCHANGED <<logVars, install, exitStatus, app, registered, handled,
                   calls, result, polls, pollEntry, pollHandled, pollLeft>>

\* let signal = chan_signal::notify(T::signals());
\* let context = Context { signal };
Notify ==
    /\ pc = "notify"
    /\ registered' = TRUE
    /\ pc' = AfterStartup("notify")
    /\ UNCHANGED <<logVars, install, exitStatus, app, queue, delivered,
                   deliveredAt, handled, calls, result, pollLog>>

\* let opts = T::Options::load();   (the implementer may die!)
OptionsLoad(ok) ==
    /\ pc = "load_opts"
    /\ pc' = IF ok THEN AfterStartup("load_opts") ELSE "exited"
    /\ exitStatus' = IF ok THEN exitStatus ELSE DieStatus
    /\ UNCHANGED <<logVars, install, app, sigs, handled, calls, result,
                   pollLog>>

\* (mutant) the result of init is tried: an Err returns from run()
AfterInitTry(r) ==
    IF r = "Ok" THEN AfterStartup("log_init") ELSE "returned"

\* what  let _ =  does with the value init returned
AfterInit(r) == AfterStartup("log_init")

\* let _ = logging::init::<T::Options>(&opts);
LoggingInit(o, early) ==
    /\ pc = "log_init"
    /\ init(rustLog, o, early)
    /\ pc' = AfterInit(SetLoggerResult)
    /\ UNCHANGED <<rustLog, output, tpc, rec, piece, ncalls, last, exitStatus,
                   app, sigs, handled, calls, result, pollLog>>

\* let config = Config::load(&opts);   (the implementer may die!)
ConfigLoad(ok) ==
    /\ pc = "load_config"
    /\ pc' = IF ok THEN AfterStartup("load_config") ELSE "exited"
    /\ exitStatus' = IF ok THEN exitStatus ELSE DieStatus
    /\ UNCHANGED <<logVars, install, app, sigs, handled, calls, result,
                   pollLog>>

\* (mutant) a failed construction ends the process
AfterNewDie(r) == IF r = "Ok" THEN AfterStartup("new") ELSE "exited"

\* what the ? of  T::new(opts, config)?  does with the value new returned
AfterNew(r) == IF r = "Ok" THEN AfterStartup("new") ELSE "returned"

\* let mut app = T::new(opts, config)?;
AppNew(r) ==
    /\ pc = "new"
    /\ calls' = Append(calls, Event("new", r))
    /\ pc' = AfterNew(r)
    /\ result' = IF r = "Ok" THEN result ELSE r
    /\ UNCHANGED <<logVars, install, exitStatus, app, sigs, handled, pollLog>>

\* loop { ... app.run_once(&context) ... }: the call
RunOnceCall ==
    /\ pc = "loop"
    /\ Count(calls, "run_once") < MaxIter
    /\ calls' = Append(calls, Event("run_once", "call"))
    /\ pc' = "run_once"
    /\ UNCHANGED <<logVars, install, exitStatus, app, sigs, handled, result,
                   pollLog>>

\* (mutant) Stopping::Yes does not break the loop
AfterRunOnceNoBreak(r) ==
    CASE r \in Stopping -> "loop"
      [] OTHER          -> "returned"

\* (mutant) a failed work step goes on to shutdown
AfterRunOnceCleanup(r) ==
    CASE r = "No" -> "loop"
      [] OTHER    -> "shutdown"

\* (mutant) run() looks at the signals itself: a pending signal ends the
\* loop
AfterRunOnceOnSignal(r) ==
    CASE r = "Yes" -> "shutdown"
      [] r = "No"  -> IF queue # <<>> THEN "shutdown" ELSE "loop"
      [] OTHER     -> "returned"

\* what run() does with the value run_once returned:
\*   if let Stopping::Yes = app.run_once(&context)? { break; }
AfterRunOnce(r) ==
    CASE r = "Yes" -> "shutdown"
      [] r = "No"  -> "loop"
      [] OTHER     -> "returned"

\* run_once returns r
RunOnceReturn(r) ==
    /\ pc = "run_once"
    /\ calls' = Append(calls, Event("run_once_ret", r))
    /\ pc' = AfterRunOnce(r)
    /\ result' = IF r \in Errs THEN r ELSE result
    /\ UNCHANGED <<logVars, install, exitStatus, app, sigs, handled, pollLog>>

\* app.shutdown()?; Ok(())
Shutdown(r) ==
    /\ pc = "shutdown"
    /\ calls' = Append(calls, Event("shutdown", r))
    /\ pc' = "returned"
    /\ result' = r
    /\ UNCHANGED <<logVars, install, exitStatus, app, sigs, handled, pollLog>>

(***************************************************************************)
(* application.rs: Context::poll_signals, called by the application from   *)
(* inside run_once.                                                        *)
(***************************************************************************)
PollSignalsCall ==
    /\ pc = "run_once"
    /\ polls < MaxPolls
    /\ polls' = polls + 1
    /\ pollEntry' = queue
    /\ pollHandled' = <<>>
    /\ pollArrived' = 0
    /\ pc' = "poll"
    /\ UNCHANGED <<logVars, install, exitStatus, app, sigs, handled, calls,
                   result, pollLeft>>

\* chan_select! arm  signal.recv() -> sig : taken when a signal is buffered
RecvReady == queue # <<>>

\* (mutant) no default arm: recv waits for a signal
DefaultNever == FALSE

\* chan_select! arm  default => { break; } : taken when no other arm is ready
DefaultReady == queue = <<>>

\* (mutant) a signal this poll has handed over already is not handed again
DispatchedOnce(q) ==
    IF \E i \in 1..Len(pollHandled) : pollHandled[i] = Head(q)
    THEN <<>>
    ELSE <<Head(q)>>

\* the signals one pass of the loop takes off the queue and hands to
\* received_signal: sig.map(|s| app.received_signal(s))
Dispatched(q) == <<Head(q)>>

\* (mutant) the signals behind the one received are dropped with it
RemainingNone(q) == <<>>

\* what signal.recv() leaves in the buffer of the channel
Remaining(q) == Tail(q)

\* (mutant) the default received_signal does nothing
AfterReceivedNop == "poll"

\* where the loop is after received_signal: back in the loop, or, with the
\* default  die!("received_signal default action"), out of the process
AfterReceived == IF overridden THEN "poll" ELSE "exited"

\* one pass of the loop through the recv arm: the signal is logged with
\* debug! and handed to received_signal
PollRecv ==
    /\ pc = "poll"
    /\ RecvReady
    /\ queue' = Remaining(queue)
    /\ out' = out \o buffer \o DebugLine(Head(queue))
    /\ buffer' = IF DebugLine(Head(queue)) = <<>> THEN buffer ELSE <<>>
    /\ handled' = handled \o Dispatched(queue)
    /\ pollHandled' = pollHandled \o Dispatched(queue)
    /\ pc' = AfterReceived
    /\ exitStatus' = IF pc' = "exited" THEN DieStatus ELSE exitStatus
    /\ UNCHANGED <<logger, holder, poisoned, tpc, rec, piece, ncalls, last,
                   install, app, registered, delivered, deliveredAt, calls,
                   result, polls, pollEntry, pollArrived, pollLeft>>

\* one pass of the loop through the default arm: poll_signals returns
PollDefault ==
    /\ pc = "poll"
    /\ DefaultReady
    /\ pollLeft' = queue
    /\ pc' = "run_once"
    /\ UNCHANGED <<logVars, install, exitStatus, app, sigs, handled, calls,
                   result, polls, pollEntry, pollHandled, pollArrived>>

Next ==
    \/ \E s \in appSignals : Deliver(s)
    \/ Notify
    \/ \E ok \in BOOLEAN : OptionsLoad(ok)
    \/ \E o \in RunOptions, early \in BOOLEAN : LoggingInit(o, early)
    \/ \E ok \in BOOLEAN : ConfigLoad(ok)
    \/ \E r \in {"Ok"} \cup Errs : AppNew(r)
    \/ RunOnceCall
    \/ \E r \in Stopping \cup Errs : RunOnceReturn(r)
    \/ \E r \in {"Ok"} \cup Errs : Shutdown(r)
    \/ PollSignalsCall
    \/ PollRecv
    \/ PollDefault

\* one caller at a time
SinkNext ==
    \/ \E l \in Level : EnabledCall(1, l)
    \/ \E r \in Records : LogCall(1, r)
    \/ LogLock(1)
    \/ LogWrite(1)
    \/ LogWriteFail(1)
    \/ \E caught \in BOOLEAN : LogPanic(1, caught)
    \/ \E r \in FewRecords : LogNested(1, r)
    \/ FlushCall(1)
    \/ FlushLock(1)
    \/ \E ok \in BOOLEAN : FlushWrite(1, ok)

\* the threads of the application, each calling when it likes
ConcNext ==
    \/ \E t \in Threads, r \in FewRecords : LogCall(t, r)
    \/ \E t \in Threads : LogLock(t)
    \/ \E t \in Threads : LogWrite(t)
    \/ \E t \in Threads : LogWriteFail(t)
    \/ \E t \in Threads, caught \in BOOLEAN : LogPanic(t, caught)
    \/ \E t \in Threads, r \in FewRecords : LogNested(t, r)
    \/ \E t \in Threads : FlushCall(t)
    \/ \E t \in Threads : FlushLock(t)
    \/ \E t \in Threads, ok \in BOOLEAN : FlushWrite(t, ok)

\* logging::init, called again and again in one process
InitNext ==
    \E e \in Environment, o \in InitOptions, early \in BOOLEAN :
        InitCall(e, o, early)

(***************************************************************************)
(* The specifications.                                                     *)
(***************************************************************************)
\* no Logger has been constructed: the state of the sink while run() and
\* the signal context are followed
NoLogger ==
    /\ level = "Off"
    /\ target_filter = <<>>
    /\ include_systemd_level = FALSE
    /\ holder = 0
    /\ poisoned = FALSE
    /\ buffer = <<>>
    /\ out = <<>>
    /\ tpc = [t \in Threads |-> "idle"]
    /\ rec = [t \in Threads |-> NoRecord]
    /\ piece = [t \in Threads |-> 0]
    /\ ncalls = 0
    /\ last = NoCall

\* run() is inside a work step: the state of the run loop while the threads
\* of the application that log are followed
InWorkStep ==
    /\ pc = "run_once"
    /\ appSignals = DefaultSignals
    /\ overridden = TRUE
    /\ registered = TRUE
    /\ queue = <<>>
    /\ delivered = <<>>
    /\ deliveredAt = <<>>
    /\ handled = <<>>
    /\ calls = <<Event("new", "Ok"), Event("run_once", "call")>>
    /\ result = "none"
    /\ polls = 0
    /\ pollEntry = <<>>
    /\ pollHandled = <<>>
    /\ pollArrived = 0
    /\ pollLeft = <<>>
    /\ exitStatus = 0

\* init has installed the sink: the sink is the process's logger and
\* Logger::new has set the maximum level to the sink's level
SinkInstalled ==
    /\ rustLog = "unset"
    /\ installed = [kind |-> "sink", by |-> 1]
    /\ maxLevel = level
    /\ inits = <<[env |-> "unset", level |-> level, backend |-> "sink",
                  ret |-> "Ok"]>>

\* run() is about to call logging::init
AtLoggingInit ==
    /\ pc = "log_init"
    /\ appSignals = DefaultSignals
    /\ overridden = TRUE
    /\ registered = TRUE
    /\ queue = <<>>
    /\ delivered = <<>>
    /\ deliveredAt = <<>>
    /\ handled = <<>>
    /\ calls = <<>>
    /\ result = "none"
    /\ polls = 0
    /\ pollEntry = <<>>
    /\ pollHandled = <<>>
    /\ pollArrived = 0
    /\ pollLeft = <<>>
    /\ exitStatus = 0

Init == RunInit /\ NoLogger /\ ProcessStart


\* the run loop and the signal context
Spec == Init /\ [][Next]_vars

LogInit == InWorkStep /\ LoggerNew /\ SinkInstalled

\* the installation of the logger: init called repeatedly in one process,
\* as by an embedding program that calls run() again after it returned
InstallInit == AtLoggingInit /\ NoLogger /\ ProcessStart

InitSpec == InstallInit /\ [][InitNext]_vars

\* the logger sink, called by one caller at a time
SinkSpec == LogInit /\ [][SinkNext]_vars

\* the sinks concurrent callers are followed through
ConcInit == LogInit /\ level \in {"Info", "Trace"}

\* the logger sink, called by the threads of the application concurrently
ConcSpec == ConcInit /\ [][ConcNext]_vars

\* the run loop under the scheduling of the thread that runs it: a call of
\* poll_signals goes on through its loop
FairSpec == Spec /\ WF_vars(PollRecv) /\ WF_vars(PollDefault)

(***************************************************************************)
(* The claims.                                                             *)
(***************************************************************************)
\* a call of poll_signals has returned to run_once
PollReturned == polls > 0 /\ pc \notin {"poll", "exited"}

\* C1: a poll_signals call that no signal arrives during hands every signal
\* that was queued when it began to received_signal, once each and in the
\* order of delivery, and the queue is empty when it returns.
C1_PollDrainsInOrder ==
    (PollReturned /\ pollArrived = 0) =>
        /\ pollHandled = pollEntry
        /\ pollLeft = <<>>

\* three queued signals, the first two the same, have been handed over by
\* one poll
C1_Witness ==
    /\ PollReturned
    /\ pollArrived = 0
    /\ Len(pollEntry) = 3
    /\ pollEntry[1] = pollEntry[2]
    /\ pollEntry[2] # pollEntry[3]
    /\ pollHandled = pollEntry
    /\ pollLeft = <<>>

\* C2: poll_signals never waits for a signal: in its loop one of the two
\* arms is always ready, a pass that finds the queue empty returns, a call
\* that finds it empty on entry hands nothing over, and every call ends.
C2_PollNeverWaits ==
    /\ [](pc = "poll" => (RecvReady \/ DefaultReady))
    /\ [][(pc = "poll" /\ queue = <<>> /\ queue' = <<>>)
             => pc' = "run_once"]_vars
    /\ []((PollReturned /\ pollEntry = <<>> /\ pollArrived = 0)
             => pollHandled = <<>>)
    /\ [](pc = "poll" => <>(pc # "poll"))

\* a poll of an empty queue has returned without a call of the handler
C2_Witness ==
    /\ PollReturned
    /\ pollEntry = <<>>
    /\ pollArrived = 0
    /\ pollHandled = <<>>
    /\ delivered = <<>>

\* the returns of run_once with value v among the first i calls
Returns(i, v) ==
    Cardinality({j \in 1..i : calls[j] = Event("run_once_ret", v)})

\* C3: when run_once returns Stopping::Yes on its k-th invocation after k-1
\* returns of Stopping::No, run_once has been invoked k times and is not
\* invoked again, shutdown is invoked once and only after that return, and
\* run() returns what shutdown returned.
C3_StopThenShutdown ==
    /\ \A i \in 1..Len(calls) :
          calls[i] = Event("run_once_ret", "Yes") =>
             /\ Count(SubSeq(calls, 1, i), "run_once") = Returns(i, "No") + 1
             /\ Count(calls, "run_once") = Returns(i, "No") + 1
             /\ IF pc = "shutdown"
                THEN Len(calls) = i
                ELSE /\ pc = "returned"
                     /\ Len(calls) = i + 1
                     /\ calls[i + 1].op = "shutdown"
                     /\ result = calls[i + 1].val
    /\ \A j \in 1..Len(calls) :
          calls[j].op = "shutdown" =>
             /\ j > 1
             /\ calls[j - 1] = Event("run_once_ret", "Yes")
             /\ Count(calls, "shutdown") = 1

\* Continue three times, then Stop: four invocations, then shutdown
C3_Witness ==
    /\ pc = "returned"
    /\ Count(calls, "run_once") = 4
    /\ Returns(Len(calls), "No") = 3
    /\ calls[Len(calls)] = Event("shutdown", "Ok")
    /\ result = "Ok"

\* C4: when run_once returns an error, run() calls nothing after it, neither
\* run_once nor shutdown, and returns that error.
C4_ErrorEndsLoop ==
    \A i \in 1..Len(calls) :
        (calls[i].op = "run_once_ret" /\ calls[i].val \in Errs) =>
            /\ i = Len(calls)
            /\ pc = "returned"
            /\ result = calls[i].val
            /\ Count(calls, "shutdown") = 0

\* the second invocation of run_once failed with e2
C4_Witness ==
    /\ pc = "returned"
    /\ Count(calls, "run_once") = 2
    /\ calls[Len(calls)] = Event("run_once_ret", "e2")
    /\ result = "e2"

\* C5: when Application::new returns an error, run() returns that error,
\* the process is not ended, and neither run_once nor shutdown is invoked.
C5_NewErrorReturned ==
    \A i \in 1..Len(calls) :
        (calls[i].op = "new" /\ calls[i].val \in Errs) =>
            /\ pc = "returned"
            /\ result = calls[i].val
            /\ Len(calls) = 1

\* new failed with e1
C5_Witness ==
    /\ pc = "returned"
    /\ calls = <<Event("new", "e1")>>
    /\ result = "e1"

\* the first call of poll_signals has returned
FirstPollReturned == polls > 1 \/ (polls = 1 /\ pc \notin {"poll", "exited"})

\* C6: the signals are registered before the options are loaded, the logger
\* installed, the config loaded and the application constructed, so a
\* signal delivered during any of these is queued, stays queued until the
\* first poll_signals, and is handed to received_signal by that poll.
C6_RegisteredBeforeStartup ==
    /\ pc \in Initialization => registered
    /\ \A i \in 1..Len(delivered) :
          deliveredAt[i] = "startup" =>
             /\ pc # "killed"
             /\ polls = 0 => (i <= Len(queue) /\ queue[i] = delivered[i])
             /\ FirstPollReturned =>
                   (i <= Len(handled) /\ handled[i] = delivered[i])

\* two signals that arrived during the startup were handed over by the
\* first poll
C6_Witness ==
    /\ polls = 1
    /\ FirstPollReturned
    /\ Len(delivered) >= 2
    /\ deliveredAt[1] = "startup"
    /\ deliveredAt[2] = "startup"
    /\ pollHandled = SubSeq(delivered, 1, 2)

\* everything written through the sink so far, passed on or held back
Stream == out \o buffer

\* the pieces in the stream that call id of log wrote
CallChunks(id) == SelectSeq(Stream, LAMBDA c : c.call = id)

Texts(cs) == [k \in 1..Len(cs) |-> cs[k].text]

\* the lines call id appended
LinesOf(id) ==
    Cardinality({k \in 1..Len(Stream) :
                    Stream[k].call = id /\ Stream[k].text = "\n"})

\* the texts are those of one line "{prefix}{message}\n"
WholeLine(ts) ==
    \E l \in Level, m \in {r.msg : r \in Records \cup FewRecords} :
        ts = Pieces(systemd_level(include_systemd_level, l), m)

\* C7: concurrent calls of log never interleave: the pieces of a record lie
\* next to each other in the output, every record that got its newline is
\* one whole line "{prefix}{message}\n", and a thread writes only while it
\* is the one that holds the mutex.
C7_LinesNotInterleaved ==
    /\ \A i, j \in 1..Len(Stream) :
          (i < j /\ Stream[i].call = Stream[j].call) =>
             \A k \in i..j : Stream[k].call = Stream[i].call
    /\ \A id \in 1..ncalls :
          LinesOf(id) > 0 => WholeLine(Texts(CallChunks(id)))
    /\ \A t \in Threads :
          tpc[t] \in {"log_write", "flush_write"} => holder = t

\* two calls were in progress at once (the one that began second wrote
\* first) and each of them has its whole line in the output
C7_Witness ==
    /\ \A t \in Threads : tpc[t] = "idle"
    /\ ncalls = 2
    /\ LinesOf(1) = 1
    /\ LinesOf(2) = 1
    /\ Len(Stream) = 6
    /\ Stream[1].call = 2

\* the severity of a level, the least severe first
Severity(l) ==
    CASE l = "Trace" -> 1
      [] l = "Debug" -> 2
      [] l = "Info"  -> 3
      [] l = "Warn"  -> 4
      [] l = "Error" -> 5

\* the severity the claim gives a level: Debug and Trace the same
ClaimedSeverity(l) == IF l = "Trace" THEN Severity("Debug") ELSE Severity(l)

\* the last call that returned was a log of a record whose target passes
LoggedOnTarget ==
    /\ last.op = "log"
    /\ StartsWith(last.target, target_filter)

\* the last call that returned was a log that met no failure of the output
NoFailure == last.how \in {"filtered", "written"}

\* C8 (as claimed): a record whose target passes is emitted iff its level is
\* at least as severe as the minimum, Debug and Trace being equally severe.
C8_AsClaimed ==
    (LoggedOnTarget /\ NoFailure /\ level # "Off") =>
        (LinesOf(last.id) = 1
            <=> ClaimedSeverity(last.level) >= ClaimedSeverity(level))

\* C8 (amended): a record whose target passes is emitted only if its level
\* is at least as severe as the minimum, and is emitted if it is unless the
\* mutex is poisoned or the write fails; the severities are all different,
\* Error > Warn > Info > Debug > Trace, and the minimum Off emits nothing.
C8_EmittedIffSevere ==
    LoggedOnTarget =>
        LET severe == /\ level # "Off"
                      /\ Severity(last.level) >= Severity(level)
        IN  /\ LinesOf(last.id) = 1 => severe
            /\ (severe /\ NoFailure) => LinesOf(last.id) = 1
            /\ LinesOf(last.id) <= 1

\* a Trace record on target was dropped by the minimum Debug
C8_Witness ==
    /\ LoggedOnTarget
    /\ level = "Debug"
    /\ last.level = "Trace"
    /\ last.how = "filtered"
    /\ LinesOf(last.id) = 0

\* the levels a LevelFilter lets through
Lets(f) ==
    CASE f = "Off"   -> {}
      [] f = "Error" -> {"Error"}
      [] f = "Warn"  -> {"Error", "Warn"}
      [] f = "Info"  -> {"Error", "Warn", "Info"}
      [] f = "Debug" -> {"Error", "Warn", "Info", "Debug"}
      [] f = "Trace" -> {"Error", "Warn", "Info", "Debug", "Trace"}

\* C9: enabled(level) is true iff level <= the configured level in the
\* order Error < Warn < Info < Debug < Trace: Off enables no level, Trace
\* enables every level.
C9_EnabledOrder ==
    last.op = "enabled" =>
        /\ last.how <=> (last.level \in Lets(level))
        /\ level = "Off" => ~last.how
        /\ level = "Trace" => last.how

\* enabled(Debug) was answered with false by a sink configured with Info
C9_Witness ==
    /\ last.op = "enabled"
    /\ level = "Info"
    /\ last.level = "Debug"
    /\ last.how = FALSE

\* the scenario of the claim: minimum Info, filter "svc", priority prefix on
Scenario ==
    /\ level = "Info"
    /\ target_filter = Str_svc
    /\ include_systemd_level

\* C10 (as claimed): log appends exactly one line iff the level is enabled
\* and the target starts with the filter, and leaves the output unchanged
\* otherwise.
C10_AsClaimed ==
    last.op = "log" =>
        /\ LinesOf(last.id) = 1 <=> Passes(last)
        /\ ~Passes(last) => CallChunks(last.id) = <<>>

\* C10 (amended): log appends exactly one line iff the level is enabled,
\* the target starts with the filter, the mutex is not poisoned and the
\* write succeeds; it leaves the output unchanged when the filter rejects
\* the record or the mutex is poisoned, and appends no whole line when the
\* write fails.  In the scenario a Debug record for "svc.net" is dropped
\* and a Warn record for "svc.net" is written as "<4> " message "\n".
C10_OneLineIffPassesAndWritten ==
    last.op = "log" =>
        /\ LinesOf(last.id) = 1 <=> (Passes(last) /\ last.how = "written")
        /\ LinesOf(last.id) <= 1
        /\ last.how = "filtered" <=> ~Passes(last)
        /\ last.how \in {"filtered", "lock_failed"} =>
              CallChunks(last.id) = <<>>
        /\ (Scenario /\ last.target = Str_svc_net) =>
              /\ last.level = "Debug" => last.how = "filtered"
              /\ (last.level = "Warn" /\ last.how = "written") =>
                    Texts(CallChunks(last.id)) = <<"<4> ", "up", "\n">>

\* the Warn record of the scenario has been written
C10_Witness ==
    /\ Scenario
    /\ last.op = "log"
    /\ last.target = Str_svc_net
    /\ last.level = "Warn"
    /\ last.how = "written"
    /\ Texts(CallChunks(last.id)) = <<"<4> ", "up", "\n">>

\* the priority prefix table of the specification
PrefixTable ==
    [l \in Level |->
        CASE l = "Error" -> "<3> "
          [] l = "Warn"  -> "<4> "
          [] l = "Info"  -> "<5> "
          [] l = "Debug" -> "<7> "
          [] l = "Trace" -> "<7> "]

\* C11: the line log writes for a record begins with "<3> ", "<4> ", "<5> ",
\* "<7> ", "<7> " for Error, Warn, Info, Debug, Trace when
\* include_systemd_level is true, and has no prefix, for every level, when
\* it is false.
C11_PrefixPerLevel ==
    (last.op = "log" /\ last.how = "written") =>
        Texts(CallChunks(last.id)) =
            IF include_systemd_level
            THEN <<PrefixTable[last.level], "up", "\n">>
            ELSE <<"up", "\n">>

\* an Info record has been written with the prefix "<5> "
C11_Witness ==
    /\ include_systemd_level
    /\ last.op = "log"
    /\ last.level = "Info"
    /\ last.how = "written"
    /\ Texts(CallChunks(last.id)) = <<"<5> ", "up", "\n">>

\* thread t takes a step of log or flush that meets a poisoned mutex
MeetsPoison(t) ==
    /\ poisoned
    /\ tpc[t] \in {"log_lock", "flush_lock"}
    /\ tpc'[t] # tpc[t]

\* thread t takes the step that ends the body of log or flush
EndsBody(t) ==
    /\ tpc[t] \in {"log_write", "flush_write"}
    /\ tpc'[t] \notin {"log_write", "flush_write", "nested_lock"}

\* C12: the failures of logging are swallowed.  A call of log or flush that
\* finds the mutex poisoned returns to its caller and writes nothing; a call
\* whose write or flush is answered with an error returns to its caller
\* with the mutex released and is not tried again.  The only panic that
\* leaves log is the one raised by formatting the record's message.
C12_FailuresSwallowed ==
    /\ [][\A t \in Threads :
            /\ MeetsPoison(t) =>
                  /\ tpc'[t] = "idle"
                  /\ UNCHANGED <<out, buffer, holder, poisoned>>
            /\ EndsBody(t) =>
                  /\ holder' = 0
                  /\ tpc'[t] \in {"idle", "panicked"}
                  /\ tpc'[t] = "panicked" =>
                        /\ tpc[t] = "log_write"
                        /\ last' = last
                        /\ poisoned'
                        /\ UNCHANGED <<out, buffer>>
                  /\ (last' # last /\ last'.how \in {"write_failed", "failed"})
                        => UNCHANGED <<out, buffer, poisoned>>]_vars
    /\ [](last.op = "log" =>
            /\ last.how = "lock_failed" => CallChunks(last.id) = <<>>
            /\ last.how \in {"lock_failed", "write_failed"} =>
                  /\ LinesOf(last.id) = 0
                  /\ \A t \in Threads :
                        rec[t] = NoRecord \/ rec[t].id # last.id)

\* a call of log has met the poisoned mutex and returned; its caller is
\* idle and nothing of its record is in the output
C12_Witness ==
    /\ poisoned
    /\ last.op = "log"
    /\ last.how = "lock_failed"
    /\ CallChunks(last.id) = <<>>
    /\ \E t \in Threads : tpc[t] = "idle"
    /\ holder = 0

\* the calls of init that returned Ok
Succeeded == {i \in 1..Len(inits) : inits[i].ret = "Ok"}

\* C13: at most one logger is installed in the process.  After any
\* sequence of init calls the installed logger is the one of the first
\* call that succeeded; every later call returns an error and replaces
\* neither the installed logger nor the fields of the installed sink.
C13_FirstInstallStays ==
    /\ [](/\ Cardinality(Succeeded) <= 1
          /\ installed = NoInstall => inits = <<>>
          /\ installed = Foreign => Succeeded = {}
          /\ installed.by # 0 =>
                /\ Succeeded = {installed.by}
                /\ installed.kind = inits[installed.by].backend
                /\ \A i \in 1..Len(inits) :
                      i # installed.by => inits[i].ret = "Err"
          /\ installed.kind = "sink" =>
                level = inits[installed.by].level)
    /\ [][installed # NoInstall =>
            UNCHANGED <<installed, logger, output>>]_vars

\* the sink of the first call is installed; a second call with another
\* level was answered with an error and the sink has kept its level
C13_Witness ==
    /\ Len(inits) = 2
    /\ inits[1].ret = "Ok"
    /\ inits[2].ret = "Err"
    /\ inits[2].backend = "sink"
    /\ installed = [kind |-> "sink", by |-> 1]
    /\ level = inits[1].level
    /\ level # inits[2].level

\* C14: the installation of the logger in run() is best effort.  Whatever
\* init returns, run() goes on to load the configuration, and run() never
\* returns or exits for it: a run() that has returned has called the
\* application, and an exit before that is an exit of the loading of the
\* options or the configuration.
C14_InitResultIgnored ==
    /\ [][(pc = "log_init" /\ inits' # inits) =>
            /\ pc' = "load_config"
            /\ UNCHANGED <<result, calls, exitStatus, sigs>>]_vars
    /\ []((inits # <<>> /\ inits[1].ret = "Err") =>
            /\ pc = "returned" => calls # <<>>
            /\ pc # "log_init"
            /\ result # "none" => calls # <<>>)

\* init returned an error, and run() has constructed the application and
\* called run_once
C14_Witness ==
    /\ inits # <<>>
    /\ inits[1].ret = "Err"
    /\ calls # <<>>
    /\ calls[1] = Event("new", "Ok")
    /\ Count(calls, "run_once") >= 1

C16_NoSignalLost ==
    /\ [](pc # "killed" => delivered = handled \o queue)
    /\ [][/\ Len(handled') >= Len(handled)
          /\ SubSeq(handled', 1, Len(handled)) = handled]_vars

\* three signals were delivered, two polls have handed over one each, and
\* the third is still queued
C16_Witness ==
    /\ polls = 2
    /\ Len(delivered) = 3
    /\ Len(handled) = 2
    /\ Len(pollHandled) = 1
    /\ Len(queue) = 1
    /\ delivered = handled \o queue

\* where run() goes with the value run_once returned, by the documentation
\* of the crate
Continuation(v) ==
    CASE v = "Yes" -> "shutdown"
      [] v = "No"  -> "loop"
      [] OTHER     -> "returned"

\* C18: received_signal is called only from inside a call of poll_signals,
\* which only the work step makes.  While run_once has never called
\* poll_signals the handler has not been called and every delivered signal
\* is still queued; and where run() goes after a work step (the next
\* iteration, shutdown, or the return of the error) is decided by the value
\* run_once returned alone, whatever has been delivered or is queued.
C18_HandlerOnlyInPoll ==
    /\ [][handled' # handled => (pc = "poll" /\ polls > 0)]_vars
    /\ [][polls' # polls => pc = "run_once"]_vars
    /\ []((polls = 0 /\ pc # "killed") =>
            (handled = <<>> /\ queue = delivered))
    /\ [][(pc = "run_once" /\ calls' # calls) =>
            pc' = Continuation(calls'[Len(calls')].val)]_vars
    /\ [][(registered /\ delivered' # delivered) =>
            UNCHANGED <<pc, calls, result, exitStatus, handled>>]_vars
    /\ [](Count(calls, "shutdown") > 0 =>
            \E i \in 1..Len(calls) :
                calls[i] = Event("run_once_ret", "Yes"))

\* run_once never polled: two signals are queued, none was handed over, the
\* loop went on past them and run() returned after shutdown
C18_Witness ==
    /\ polls = 0
    /\ Len(delivered) >= 2
    /\ queue = delivered
    /\ handled = <<>>
    /\ deliveredAt[1] = "run"
    /\ Count(calls, "run_once") >= 2
    /\ Count(calls, "shutdown") = 1
    /\ pc = "returned"

\* C19: with the default received_signal the first signal poll_signals
\* hands over ends the process with a status other than zero: no second
\* signal is handed over (the later ones stay queued), run_once is not
\* called again or returned from, shutdown is never called, and nothing
\* happens in the process afterwards.
C19_DefaultHandlerExits ==
    /\ [](~overridden =>
            /\ Len(handled) <= 1
            /\ handled # <<>> =>
                  /\ pc = "exited"
                  /\ exitStatus # 0
                  /\ exitStatus = 1
                  /\ result = "none"
                  /\ Count(calls, "shutdown") = 0
                  /\ calls[Len(calls)] = Event("run_once", "call")
                  /\ delivered = handled \o queue)
    /\ [][pc = "exited" => UNCHANGED vars]_vars

\* the default handler was given the first of two pending signals: the
\* process has exited with status 1 and the second signal is still queued
C19_Witness ==
    /\ ~overridden
    /\ Len(handled) = 1
    /\ Len(queue) >= 1
    /\ pc = "exited"
    /\ exitStatus = 1
    /\ Count(calls, "shutdown") = 0

\* C20: a call of init that fails because a logger is installed already
\* leaves the logging state of the process as it was: the installed logger,
\* the sink's fields and output, and the global maximum level, which the
\* options of the rejected call do not change.  (Stated for the calls that
\* construct the built-in sink, the code of this crate.)
C20_FailedInitChangesNothing ==
    [][(inits' # inits /\ inits'[Len(inits')].ret = "Err"
                       /\ inits'[Len(inits')].backend = "sink") =>
         UNCHANGED <<installed, logger, output, maxLevel>>]_vars

\* C17: logging never hangs the host.  The mutex is held only by a thread
\* that is writing in the body of log or flush, so that it is released at
\* the end of each call, it is free whenever no call is in progress, and no
\* thread inside a call waits for a mutex that will not be released, also
\* when formatting a record's message itself logs.
C17_NoDeadlock ==
    /\ \A t \in Threads :
          holder = t => tpc[t] \in {"log_write", "flush_write"}
    /\ (\A t \in Threads : tpc[t] \in {"idle", "panicked"}) => holder = 0
    /\ (\E t \in Threads : tpc[t] \notin {"idle", "panicked"}) =>
          \E t \in Threads :
              \/ tpc[t] \in {"log_write", "flush_write"}
              \/ tpc[t] \in {"log_lock", "flush_lock"} /\ holder = 0

=============================================================================
